---- MODULE Spec2Model ----
(***************************************************************************)
(* Bus-transaction drivers of the four Verilator testbenches               *)
(*   sim_bitrev_spi.cpp, sim_chisel_spi.cpp, sim_qspi_psram.cpp (APB)      *)
(*   sim_spi_top.cpp (Wishbone)                                            *)
(* One step of the model is one block of driver code ending in tick().     *)
(* 32-bit words are tuples of four byte lanes, lane 1 = bits 7..0.         *)
(***************************************************************************)
EXTENDS Integers, Sequences, FiniteSets, TLC

(* ---------------- bounds of the model ---------------- *)

\* MAX_CYCLES of sim_qspi_psram.cpp:40 is 500000; the loop logic is kept and
\* the count is scaled so that the timeout edge is reachable.
MAX_CYCLES == 3

\* Largest number of loop edges a device keeps readiness low in the
\* testbenches whose wait loop has no counter.
MaxWait == MAX_CYCLES + 2

\* No new call is issued once twice the number of tick() calls has reached
\* this value.
MaxSimTime == 37

(* ---------------- words, bytes, byte enables ---------------- *)

Variants == {"bitrev", "chisel", "qspi", "spi_top"}

W0 == <<0, 0, 0, 0>>

WFF == <<255, 255, 255, 255>>

DEADBEEF == <<239, 190, 173, 222>>

Void == <<>>

DataSet == {W0, WFF, DEADBEEF}

Bit(s, k) == (s \div (2 ^ k)) % 2

\* byte-lane merge of the reference memory: lane k+1 is taken from new when
\* bit k of the byte-enable mask is set
Merge(old, new, strb) ==
    [k \in 1..4 |-> IF Bit(strb, k - 1) = 1 THEN new[k] ELSE old[k]]

Last(s) == s[Len(s)]

(* ---------------- state ---------------- *)

\* variant: which testbench; dut, out: input and output ports of the model
\* handle; mem: storage of the reference device; pc, i, cycles, val: position
\* and locals of the running driver function; call, prev: the running (or
\* last) call and the one before it; ret, outcome: what the last call
\* returned and whether its wait loop saw readiness; clean: number of
\* completed transactions in a row before the running call; trace: one
\* record per edge advanced by the running (or last) call; script: calls
\* main() has still to make (empty when calls are issued freely).
\* tfp: a trace sink is attached; ticks: number of tick() calls made so far;
\* test_pass, test_fail: the counters of check(); chk: the arguments of the
\* check() just made; exit_status: what main() returned (NoExit before);
\* wx: position, locals and result of wait_xfer_done(); psram_mem: the cells
\* of the PSRAM array the calls can address; io: the last psram_read or
\* psram_write call and what it returned; log: the transfer helper that is
\* running, and the bus transactions issued since it began, each with the
\* state of the bus at the moment of issue.
VARIABLES variant, dut, out, mem, pc, call, prev, i, cycles, val, ret,
          outcome, clean, trace, sim_time, script,
          tfp, ticks, test_pass, test_fail, chk, exit_status, wx,
          psram_mem, io, log

vars == <<variant, dut, out, mem, pc, call, prev, i, cycles, val, ret,
          outcome, clean, trace, sim_time, script,
          tfp, ticks, test_pass, test_fail, chk, exit_status, wx,
          psram_mem, io, log>>

\* the state the bus drivers and tick() never write
aside ==
    <<tfp, test_pass, test_fail, chk, exit_status, wx, psram_mem, io, log>>

NoChk == [made |-> FALSE]

NoExit == -1

NoWait == [at |-> "none", timeout |-> 0, given |-> 0, flags |-> <<>>,
           result |-> "none"]

NoIo == [op |-> "none"]

NoLog == [helper |-> "none", calls |-> <<>>, returned |-> FALSE]

\* address of the control register and its GO flag, bit 8 of the word
ADDR_CTRL == 16

CTRL_GO(w) == Bit(w[2], 0) = 1

\* the control word with the GO flag cleared
ClearGo(w) == [w EXCEPT ![2] = @ - Bit(@, 0)]

\* the index mask of psram_read and psram_write: 0xFFFFF
PSRAM_MASK == 1048575

\* (uint32_t)addr & 0xFFFFF for a 32-bit int addr: the conversion adds 2^32
\* to a negative addr, and 2^32 is a multiple of the mask's 2^20
psram_index(addr) == addr % (PSRAM_MASK + 1)

\* addresses and bytes (char, -128..127) the PSRAM calls are made with
PsramAddrs == {0, 1, 1048575, 1048576, 1048577, -1, -1048576, -1048575}

PsramBytes == {0, 1, 127, -128, -1}

\* the cells of psram_mem the calls above can reach
PsramCells == {psram_index(a) : a \in PsramAddrs}

IsWB == variant = "spi_top"

IsQSPI == variant = "qspi"

Loopback == variant \in {"chisel", "spi_top"}

AddrSet == IF IsQSPI THEN {256, 260} ELSE {16, 20}

StrbSet == {15, 3}

(* ---------------- views of the signal surface ---------------- *)

Clk(d) == IF IsWB THEN d.wb_clk_i ELSE d.clock

Rst(d) == IF IsWB THEN d.wb_rst_i ELSE d.reset

ReqActive(d) ==
    IF IsWB THEN d.wb_cyc_i = 1 /\ d.wb_stb_i = 1
            ELSE d.psel = 1 /\ d.penable = 1

We(d) == IF IsWB THEN d.wb_we_i ELSE d.pwrite

Adr(d) == IF IsWB THEN d.wb_adr_i ELSE d.paddr

WDat(d) == IF IsWB THEN d.wb_dat_i ELSE d.pwdata

Sel(d) == IF IsWB THEN d.wb_sel_i ELSE d.pstrb

\* the model handle right after construction: every input port is zero
DutInit(v) ==
    IF v = "spi_top"
    THEN [wb_clk_i |-> 0, wb_rst_i |-> 0, wb_cyc_i |-> 0, wb_stb_i |-> 0,
          wb_we_i |-> 0, wb_sel_i |-> 0, wb_adr_i |-> 0, wb_dat_i |-> W0,
          miso_pad_i |-> 0]
    ELSE IF v = "chisel"
    THEN [clock |-> 0, reset |-> 0, psel |-> 0, penable |-> 0, pwrite |-> 0,
          pstrb |-> 0, paddr |-> 0, pwdata |-> W0, misoPadI |-> 0]
    ELSE [clock |-> 0, reset |-> 0, psel |-> 0, penable |-> 0, pwrite |-> 0,
          pstrb |-> 0, paddr |-> 0, pwdata |-> W0]

OutInit == [ready |-> FALSE, data |-> W0, mosi |-> 0]

(* ---------------- reference device behind dut->eval() ---------------- *)

\* what the device may do at one rising edge: answer with readiness, and,
\* while the control register is being polled, finish its transfer
Choices == [rdy : BOOLEAN, fin : IF wx.at = "none" THEN {FALSE} ELSE BOOLEAN]

\* dut->eval(): outputs and storage change on a rising clock edge only.
\* A request (select and enable, or cycle and strobe) that the device answers
\* with readiness completes: a write stores the enabled lanes, a read
\* presents the stored word; the data output is zero otherwise.  The serial
\* output of the loopback devices shifts out alternating bits.  A device
\* that finishes its transfer clears the GO flag of its control register.
eval(prevclk, d, o, m, ch) ==
    IF ~(prevclk = 0 /\ Clk(d) = 1) THEN [out |-> o, mem |-> m]
    ELSE IF Rst(d) = 1 THEN [out |-> OutInit, mem |-> m]
    ELSE LET hit == ReqActive(d) /\ ch.rdy /\ Adr(d) \in DOMAIN m
             m1  == IF hit /\ We(d) = 1
                    THEN [m EXCEPT ![Adr(d)] = Merge(@, WDat(d), Sel(d))]
                    ELSE m
         IN  [out |-> [ready |-> ch.rdy,
                       data  |-> IF hit /\ We(d) = 0 THEN m[Adr(d)] ELSE W0,
                       mosi  |-> IF Loopback THEN 1 - o.mosi ELSE 0],
              mem |-> IF ch.fin /\ ADDR_CTRL \in DOMAIN m1
                      THEN [m1 EXCEPT ![ADDR_CTRL] = ClearGo(@)]
                      ELSE m1]

(* ---------------- tick() ---------------- *)

\* the serial data input of the loopback testbenches (0 where there is none)
Miso(d) ==
    IF IsWB THEN d.miso_pad_i
    ELSE IF variant = "chisel" THEN d.misoPadI ELSE 0

\* the inputs one phase of tick() drives: the clock level and, in the
\* loopback testbenches, the serial output copied to the serial input
drive(level, d, o) ==
    IF IsWB
    THEN [d EXCEPT !.wb_clk_i = level, !.miso_pad_i = o.mosi]
    ELSE IF variant = "chisel"
    THEN [d EXCEPT !.clock = level, !.misoPadI = o.mosi]
    ELSE [d EXCEPT !.clock = level]

\* what one phase leaves behind: d1 are the inputs the device was evaluated
\* with and e the result of dut->eval().  ev is the record of the
\* evaluation: the clock level and the serial input the device was evaluated
\* with, and the outputs it produced.
Evaluated(level, d1, e) ==
    [dut |-> d1, out |-> e.out, mem |-> e.mem,
     ev |-> [clk |-> level, miso |-> Miso(d1), out |-> e.out]]

\* the evaluation of one phase: prevclk is the clock level before the phase
Evaluate(level, prevclk, d1, o, m, ch) ==
    Evaluated(level, d1, eval(prevclk, d1, o, m, ch))

\* one phase of tick() without the loopback assignment
Phase_no_loopback(level, d, o, m, ch) ==
    Evaluate(level, Clk(d),
             IF IsWB THEN [d EXCEPT !.wb_clk_i = level]
                     ELSE [d EXCEPT !.clock = level],
             o, m, ch)

\* one phase of tick(): drive the clock, apply the loopback wiring, evaluate
Phase(level, d, o, m, ch) ==
    Evaluate(level, Clk(d), drive(level, d, o), o, m, ch)

\* what tick() leaves behind after its phases p1 and p2.  ent is the record
\* of the edge: the inputs the device saw at the rising edge, the outputs
\* the driver can sample when tick() returns, and the two evaluations.
Ticked(p1, p2) ==
    [dut |-> p2.dut, out |-> p2.out, mem |-> p2.mem,
     ent |-> [in |-> IF IsWB THEN p2.dut ELSE p1.dut, out |-> p2.out,
              ev |-> <<p1.ev, p2.ev>>]]

\* the second phase of tick(), run on what the first phase p1 left behind
SecondPhase(level, p1, ch) ==
    Ticked(p1, Phase(level, p1.dut, p1.out, p1.mem, ch))

\* tick() advancing half a clock period: one phase that inverts the clock
Tick_half_period(d, o, m, ch) ==
    LET p1 == Phase(1 - Clk(d), d, o, m, ch)
    IN  [dut |-> p1.dut, out |-> p1.out, mem |-> p1.mem,
         ent |-> [in |-> p1.dut, out |-> p1.out, ev |-> <<p1.ev, p1.ev>>]]

\* tick() driving the clock low first and high second in every testbench
Tick_low_first(d, o, m, ch) ==
    LET p1 == Phase(0, d, o, m, ch)
        p2 == Phase(1, p1.dut, p1.out, p1.mem, ch)
    IN  [dut |-> p2.dut, out |-> p2.out, mem |-> p2.mem,
         ent |-> [in |-> p2.dut, out |-> p2.out, ev |-> <<p1.ev, p2.ev>>]]

\* tick(): two phases; the APB testbenches drive clock 1 then 0, the
\* Wishbone testbench drives wb_clk_i 0 then 1
Tick(d, o, m, ch) ==
    SecondPhase(IF IsWB THEN 1 ELSE 0,
                Phase(IF IsWB THEN 0 ELSE 1, d, o, m, ch), ch)

InitCommon ==
    /\ dut = DutInit(variant)
    /\ out = OutInit
    /\ pc = "start"
    /\ call = [op |-> "none"]
    /\ prev = [op |-> "none", outcome |-> "none"]
    /\ i = 0
    /\ cycles = 0
    /\ val = W0
    /\ ret = Void
    /\ outcome = "none"
    /\ clean = 0
    /\ trace = <<>>
    /\ sim_time = 0
    /\ ticks = 0
    /\ test_pass = 0
    /\ test_fail = 0
    /\ chk = NoChk
    /\ exit_status = NoExit
    /\ wx = NoWait
    /\ psram_mem = [c \in PsramCells |-> 0]
    /\ io = NoIo

\* every main() attaches the trace sink before its first tick()
Init ==
    /\ variant \in Variants
    /\ mem = [a \in AddrSet |-> W0]
    /\ script = <<>>
    /\ tfp = TRUE
    /\ log = NoLog
    /\ InitCommon

\* what one tick() t writes to the shared state; tr is the edge record so far
Advance(t, tr) ==
    /\ dut' = t.dut
    /\ out' = t.out
    /\ mem' = t.mem
    /\ trace' = Append(tr, t.ent)
    /\ sim_time' = IF tfp THEN sim_time + 2 ELSE sim_time
    /\ ticks' = ticks + 1

\* effect of one tick() on the shared state: d are the inputs as the driver
\* has just set them, tr the edge record so far
DoTick(d, tr, ch) == Advance(Tick(d, out, mem, ch), tr)

\* while a transfer helper runs the call c is logged with the position of
\* the driver, the handle and the outcome of the call before, as they are on
\* entry
Logged(c) ==
    log' = IF log.helper = "none" THEN log
           ELSE [log EXCEPT !.calls =
                     Append(@, [c |-> c, at |-> pc, before |-> dut,
                                last |-> outcome])]

\* entry of a driver function: the bookkeeping of the calls
Enter(c) ==
    /\ call' = c
    /\ prev' = IF call.op = "reset" THEN [op |-> "reset", outcome |-> outcome]
               ELSE [call EXCEPT !.outcome = outcome]
    /\ clean' = IF call.op \in {"write", "read"} /\ outcome = "completed"
                THEN clean + 1 ELSE 0
    /\ outcome' = "none"
    /\ ret' = Void
    /\ Logged(c)

\* entry of a driver function: what it leaves alone; the arguments of the
\* last check() are no longer those of the call just made
Entered ==
    /\ chk' = NoChk
    /\ UNCHANGED <<tfp, test_pass, test_fail, exit_status, psram_mem, io>>

\* number of edges advanced by the wait loop of the running transaction
LoopEdges == IF IsWB THEN Len(trace) ELSE Len(trace) - 1

\* the devices of the testbenches without a loop counter answer within
\* MaxWait loop edges (n: loop edges advanced so far)
Answers(n, ch) == IsQSPI \/ ch.rdy \/ n + 1 < MaxWait

\* what a timed-out call hands to its caller (QSPI testbench only)
TimedOutReturn(op) == IF op = "read" THEN DEADBEEF ELSE Void

(* ---------------- do_reset() of the three APB testbenches ---------------- *)

\* do_reset_clear with the address left as the last transaction drove it
do_reset_clear_keeps_paddr(d) ==
    [d EXCEPT !.psel = 0, !.penable = 0, !.pwrite = 0, !.pstrb = 0,
              !.pwdata = W0]

\* the request signals as do_reset() clears them
do_reset_clear(d) ==
    [d EXCEPT !.psel = 0, !.penable = 0, !.pwrite = 0, !.pstrb = 0,
              !.paddr = 0, !.pwdata = W0]

do_reset_assert ==
    /\ ~IsWB
    /\ pc \in {"start", "idle"}
    /\ \E ch \in Choices :
         LET z == do_reset_clear(dut)
             d == IF IsQSPI THEN [z EXCEPT !.reset = 0, !.clock = 0]
                  ELSE IF variant = "chisel"
                  THEN [z EXCEPT !.reset = 1, !.misoPadI = 0]
                  ELSE [z EXCEPT !.reset = 1]
             e == IF IsQSPI THEN eval(Clk(dut), d, out, mem, ch)
                            ELSE [out |-> out, mem |-> mem]
         IN  /\ dut' = [d EXCEPT !.reset = 1]
             /\ out' = e.out
             /\ mem' = e.mem
    /\ Enter([op |-> "reset", before |-> dut])
    /\ i' = 0
    /\ pc' = "reset_loop"
    /\ trace' = <<>>
    /\ UNCHANGED <<variant, cycles, val, sim_time, ticks>>
    /\ Entered

do_reset_loop ==
    /\ ~IsWB
    /\ pc = "reset_loop"
    /\ i < 10
    /\ \E ch \in Choices : DoTick(dut, trace, ch)
    /\ i' = i + 1
    /\ UNCHANGED <<variant, pc, call, prev, cycles, val, ret, outcome, clean,
                   script>>
    /\ UNCHANGED aside

do_reset_release ==
    /\ ~IsWB
    /\ pc = "reset_loop"
    /\ ~(i < 10)
    /\ \E ch \in Choices : DoTick([dut EXCEPT !.reset = 0], trace, ch)
    /\ pc' = "idle"
    /\ i' = 0
    /\ UNCHANGED <<variant, call, prev, cycles, val, ret, outcome, clean,
                   script>>
    /\ UNCHANGED aside

(* ---------------- apb_write() ---------------- *)

\* apb_write_setup without the assignment of pwdata
apb_write_setup_no_pwdata(d, addr, data, strb) ==
    [d EXCEPT !.paddr = IF IsQSPI THEN addr ELSE addr % 256,
              !.pstrb = IF IsQSPI THEN strb % 256 ELSE 15,
              !.pwrite = 1, !.psel = 1, !.penable = 0]

\* apb_write_setup driving all byte enables whatever the mask given
apb_write_setup_full_pstrb(d, addr, data, strb) ==
    [d EXCEPT !.paddr = IF IsQSPI THEN addr ELSE addr % 256,
              !.pwdata = data, !.pstrb = 15,
              !.pwrite = 1, !.psel = 1, !.penable = 0]

\* apb_write_setup asserting enable together with select
apb_write_setup_enables(d, addr, data, strb) ==
    [d EXCEPT !.paddr = IF IsQSPI THEN addr ELSE addr % 256,
              !.pwdata = data,
              !.pstrb = IF IsQSPI THEN strb % 256 ELSE 15,
              !.pwrite = 1, !.psel = 1, !.penable = 1]

\* SETUP phase of apb_write: the signals driven before the first tick().
\* addr is uint8_t in the bit-reversal and Chisel testbenches, which take no
\* byte-enable argument and drive 0xF.
apb_write_setup(d, addr, data, strb) ==
    [d EXCEPT !.paddr = IF IsQSPI THEN addr ELSE addr % 256,
              !.pwdata = data,
              !.pstrb = IF IsQSPI THEN strb % 256 ELSE 15,
              !.pwrite = 1, !.psel = 1, !.penable = 0]

apb_write_SETUP(addr, data, strb) ==
    /\ ~IsWB
    /\ pc = "idle"
    /\ \E ch \in Choices :
         DoTick(apb_write_setup(dut, addr, data, strb), <<>>, ch)
    /\ Enter([op |-> "write", addr |-> addr, data |-> data, strb |-> strb,
              outcome |-> "none"])
    /\ pc' = "w_access"
    /\ UNCHANGED <<variant, i, cycles, val>>
    /\ Entered

\* apb_write_pass testing the readiness sampled before the edge
apb_write_pass_stale(d, c, ch) ==
    /\ Answers(Len(trace) - 1, ch)
    /\ DoTick(d, trace, ch)
    /\ cycles' = IF IsQSPI THEN c + 1 ELSE cycles
    /\ IF IsQSPI /\ c + 1 > MAX_CYCLES
       THEN pc' = "w_hold" /\ outcome' = "timeout"
       ELSE IF out.ready
       THEN /\ pc' = (IF IsQSPI THEN "w_hold" ELSE "w_idle")
            /\ outcome' = "completed"
       ELSE pc' = "w_wait" /\ outcome' = outcome
    /\ UNCHANGED <<variant, call, prev, i, val, ret, clean, script>>

\* apb_write_pass testing readiness before the cycle count
apb_write_pass_ready_first(d, c, ch) ==
    /\ Answers(Len(trace) - 1, ch)
    /\ DoTick(d, trace, ch)
    /\ cycles' = IF IsQSPI THEN c + 1 ELSE cycles
    /\ IF out'.ready
       THEN /\ pc' = (IF IsQSPI THEN "w_hold" ELSE "w_idle")
            /\ outcome' = "completed"
       ELSE IF IsQSPI /\ c + 1 > MAX_CYCLES
       THEN pc' = "w_hold" /\ outcome' = "timeout"
       ELSE pc' = "w_wait" /\ outcome' = outcome
    /\ UNCHANGED <<variant, call, prev, i, val, ret, clean, script>>

\* apb_write_pass leaving for the teardown at once when it times out
apb_write_pass_timeout_skips_hold(d, c, ch) ==
    /\ Answers(Len(trace) - 1, ch)
    /\ DoTick(d, trace, ch)
    /\ cycles' = IF IsQSPI THEN c + 1 ELSE cycles
    /\ IF IsQSPI /\ c + 1 > MAX_CYCLES
       THEN pc' = "w_idle" /\ outcome' = "timeout"
       ELSE IF out'.ready
       THEN /\ pc' = (IF IsQSPI THEN "w_hold" ELSE "w_idle")
            /\ outcome' = "completed"
       ELSE pc' = "w_wait" /\ outcome' = outcome
    /\ UNCHANGED <<variant, call, prev, i, val, ret, clean, script>>

\* one pass of the do-while loop of apb_write: d are the inputs driven and c
\* the value of cycles before the pass
apb_write_pass(d, c, ch) ==
    /\ Answers(Len(trace) - 1, ch)
    /\ DoTick(d, trace, ch)
    /\ cycles' = IF IsQSPI THEN c + 1 ELSE cycles
    /\ IF IsQSPI /\ c + 1 > MAX_CYCLES
       THEN pc' = "w_hold" /\ outcome' = "timeout"
       ELSE IF out'.ready
       THEN /\ pc' = (IF IsQSPI THEN "w_hold" ELSE "w_idle")
            /\ outcome' = "completed"
       ELSE pc' = "w_wait" /\ outcome' = outcome
    /\ UNCHANGED <<variant, call, prev, i, val, ret, clean, script>>

\* apb_write_ACCESS with a while loop: readiness is tested before the first
\* edge of the access phase
apb_write_ACCESS_tests_first ==
    /\ ~IsWB
    /\ pc = "w_access"
    /\ IF out.ready
       THEN /\ dut' = [dut EXCEPT !.penable = 1]
            /\ pc' = (IF IsQSPI THEN "w_hold" ELSE "w_idle")
            /\ outcome' = "completed"
            /\ UNCHANGED <<variant, out, mem, call, prev, i, cycles, val,
                           ret, clean, trace, sim_time, script, ticks>>
       ELSE \E ch \in Choices :
                apb_write_pass([dut EXCEPT !.penable = 1], 0, ch)
    /\ UNCHANGED aside

\* apb_write_ACCESS clearing the address when it asserts enable
apb_write_ACCESS_clears_paddr ==
    /\ ~IsWB
    /\ pc = "w_access"
    /\ \E ch \in Choices :
         apb_write_pass([dut EXCEPT !.penable = 1, !.paddr = 0], 0, ch)
    /\ UNCHANGED aside

apb_write_ACCESS ==
    /\ ~IsWB
    /\ pc = "w_access"
    /\ \E ch \in Choices : apb_write_pass([dut EXCEPT !.penable = 1], 0, ch)
    /\ UNCHANGED aside

apb_write_WAIT ==
    /\ ~IsWB
    /\ pc = "w_wait"
    /\ \E ch \in Choices : apb_write_pass(dut, cycles, ch)
    /\ UNCHANGED aside

\* apb_write_HOLD with enable dropped before the hold edge
apb_write_HOLD_drops_penable ==
    /\ IsQSPI
    /\ pc = "w_hold"
    /\ \E ch \in Choices : DoTick([dut EXCEPT !.penable = 0], trace, ch)
    /\ pc' = "w_idle"
    /\ UNCHANGED <<variant, call, prev, i, cycles, val, ret, outcome, clean,
                   script>>
    /\ UNCHANGED aside

apb_write_HOLD ==
    /\ IsQSPI
    /\ pc = "w_hold"
    /\ \E ch \in Choices : DoTick(dut, trace, ch)
    /\ pc' = "w_idle"
    /\ UNCHANGED <<variant, call, prev, i, cycles, val, ret, outcome, clean,
                   script>>
    /\ UNCHANGED aside

\* apb_write_idle leaving the write direction set
apb_write_idle_keeps_pwrite(d) == [d EXCEPT !.psel = 0, !.penable = 0]

\* apb_write_idle releasing select but not enable
apb_write_idle_keeps_penable(d) == [d EXCEPT !.psel = 0, !.pwrite = 0]

\* IDLE phase of apb_write: the signals driven before the last tick()
apb_write_idle(d) == [d EXCEPT !.psel = 0, !.penable = 0, !.pwrite = 0]

apb_write_IDLE ==
    /\ ~IsWB
    /\ pc = "w_idle"
    /\ \E ch \in Choices : DoTick(apb_write_idle(dut), trace, ch)
    /\ pc' = "idle"
    /\ ret' = IF outcome = "timeout" THEN TimedOutReturn("write") ELSE Void
    /\ cycles' = 0
    /\ UNCHANGED <<variant, call, prev, i, val, outcome, clean, script>>
    /\ UNCHANGED aside

(* ---------------- apb_read() ---------------- *)

apb_read_SETUP(addr) ==
    /\ ~IsWB
    /\ pc = "idle"
    /\ \E ch \in Choices :
         DoTick([dut EXCEPT !.paddr = IF IsQSPI THEN addr ELSE addr % 256,
                            !.pwrite = 0, !.pstrb = 15,
                            !.psel = 1, !.penable = 0],
                <<>>, ch)
    /\ Enter([op |-> "read", addr |-> addr, outcome |-> "none"])
    /\ pc' = "r_access"
    /\ UNCHANGED <<variant, i, cycles, val>>
    /\ Entered

\* one pass of the do-while loop of apb_read; the timed-out read of the QSPI
\* testbench returns from inside the loop
apb_read_pass(d, c, ch) ==
    /\ Answers(Len(trace) - 1, ch)
    /\ DoTick(d, trace, ch)
    /\ IF IsQSPI /\ c + 1 > MAX_CYCLES
       THEN /\ pc' = "idle" /\ outcome' = "timeout"
            /\ ret' = TimedOutReturn("read")
            /\ val' = W0 /\ cycles' = 0
       ELSE IF out'.ready
       THEN /\ pc' = (IF IsQSPI THEN "r_hold" ELSE "r_idle")
            /\ outcome' = "completed" /\ val' = out'.data /\ ret' = ret
            /\ cycles' = IF IsQSPI THEN c + 1 ELSE cycles
       ELSE /\ pc' = "r_wait" /\ UNCHANGED <<outcome, val, ret>>
            /\ cycles' = IF IsQSPI THEN c + 1 ELSE cycles
    /\ UNCHANGED <<variant, call, prev, i, clean, script>>

apb_read_ACCESS ==
    /\ ~IsWB
    /\ pc = "r_access"
    /\ \E ch \in Choices : apb_read_pass([dut EXCEPT !.penable = 1], 0, ch)
    /\ UNCHANGED aside

apb_read_WAIT ==
    /\ ~IsWB
    /\ pc = "r_wait"
    /\ \E ch \in Choices : apb_read_pass(dut, cycles, ch)
    /\ UNCHANGED aside

apb_read_HOLD ==
    /\ IsQSPI
    /\ pc = "r_hold"
    /\ \E ch \in Choices : DoTick(dut, trace, ch)
    /\ pc' = "r_idle"
    /\ UNCHANGED <<variant, call, prev, i, cycles, val, ret, outcome, clean,
                   script>>
    /\ UNCHANGED aside

\* apb_read_IDLE returning the data output as it stands after the teardown
apb_read_IDLE_samples_late ==
    /\ ~IsWB
    /\ pc = "r_idle"
    /\ \E ch \in Choices :
         DoTick([dut EXCEPT !.psel = 0, !.penable = 0], trace, ch)
    /\ pc' = "idle"
    /\ ret' = out'.data
    /\ val' = W0
    /\ cycles' = 0
    /\ UNCHANGED <<variant, call, prev, i, outcome, clean, script>>
    /\ UNCHANGED aside

apb_read_IDLE ==
    /\ ~IsWB
    /\ pc = "r_idle"
    /\ \E ch \in Choices :
         DoTick([dut EXCEPT !.psel = 0, !.penable = 0], trace, ch)
    /\ pc' = "idle"
    /\ ret' = val
    /\ val' = W0
    /\ cycles' = 0
    /\ UNCHANGED <<variant, call, prev, i, outcome, clean, script>>
    /\ UNCHANGED aside

(* ---------------- reset() of the Wishbone testbench ---------------- *)

reset_assert ==
    /\ IsWB
    /\ pc \in {"start", "idle"}
    /\ dut' = [dut EXCEPT !.wb_rst_i = 1, !.wb_cyc_i = 0, !.wb_stb_i = 0,
                          !.wb_we_i = 0, !.wb_sel_i = 0, !.wb_adr_i = 0,
                          !.wb_dat_i = W0, !.miso_pad_i = 0]
    /\ Enter([op |-> "reset", before |-> dut])
    /\ i' = 0
    /\ pc' = "reset_loop"
    /\ trace' = <<>>
    /\ UNCHANGED <<variant, out, mem, cycles, val, sim_time, ticks>>
    /\ Entered

reset_loop ==
    /\ IsWB
    /\ pc = "reset_loop"
    /\ i < 10
    /\ \E ch \in Choices : DoTick(dut, trace, ch)
    /\ i' = i + 1
    /\ UNCHANGED <<variant, pc, call, prev, cycles, val, ret, outcome, clean,
                   script>>
    /\ UNCHANGED aside

reset_release ==
    /\ IsWB
    /\ pc = "reset_loop"
    /\ ~(i < 10)
    /\ \E ch \in Choices : DoTick([dut EXCEPT !.wb_rst_i = 0], trace, ch)
    /\ pc' = "idle"
    /\ i' = 0
    /\ UNCHANGED <<variant, call, prev, cycles, val, ret, outcome, clean,
                   script>>
    /\ UNCHANGED aside

(* ---------------- wb_write() ---------------- *)

\* one pass of do { tick(); } while (!dut->wb_ack_o) of wb_write
wb_write_pass(d, tr, ch) ==
    /\ Answers(Len(tr), ch)
    /\ DoTick(d, tr, ch)
    /\ IF out'.ready
       THEN pc' = "w_idle" /\ outcome' = "completed"
       ELSE pc' = "w_wait" /\ outcome' = "none"
    /\ UNCHANGED <<variant, i, cycles, val>>

wb_write_REQUEST(addr, data) ==
    /\ IsWB
    /\ pc = "idle"
    /\ \E ch \in Choices :
         wb_write_pass([dut EXCEPT !.wb_adr_i = addr % 256, !.wb_dat_i = data,
                                   !.wb_sel_i = 15, !.wb_we_i = 1,
                                   !.wb_stb_i = 1, !.wb_cyc_i = 1], <<>>, ch)
    /\ call' = [op |-> "write", addr |-> addr, data |-> data, strb |-> 15,
                outcome |-> "none"]
    /\ Logged(call')
    /\ prev' = IF call.op = "reset" THEN [op |-> "reset", outcome |-> outcome]
               ELSE [call EXCEPT !.outcome = outcome]
    /\ clean' = IF call.op \in {"write", "read"} /\ outcome = "completed"
                THEN clean + 1 ELSE 0
    /\ ret' = Void
    /\ Entered

wb_write_WAIT ==
    /\ IsWB
    /\ pc = "w_wait"
    /\ \E ch \in Choices : wb_write_pass(dut, trace, ch)
    /\ UNCHANGED <<call, prev, clean, ret, script>>
    /\ UNCHANGED aside

wb_write_RELEASE ==
    /\ IsWB
    /\ pc = "w_idle"
    /\ \E ch \in Choices :
         DoTick([dut EXCEPT !.wb_stb_i = 0, !.wb_cyc_i = 0, !.wb_we_i = 0],
                trace, ch)
    /\ pc' = "idle"
    /\ UNCHANGED <<variant, call, prev, i, cycles, val, ret, outcome, clean,
                   script>>
    /\ UNCHANGED aside

(* ---------------- wb_read() ---------------- *)

\* one pass of do { tick(); } while (!dut->wb_ack_o) of wb_read, followed by
\* data = dut->wb_dat_o when the loop ends
wb_read_pass(d, tr, ch) ==
    /\ Answers(Len(tr), ch)
    /\ DoTick(d, tr, ch)
    /\ IF out'.ready
       THEN pc' = "r_idle" /\ outcome' = "completed" /\ val' = out'.data
       ELSE pc' = "r_wait" /\ outcome' = "none" /\ val' = val
    /\ UNCHANGED <<variant, i, cycles>>

wb_read_REQUEST(addr) ==
    /\ IsWB
    /\ pc = "idle"
    /\ \E ch \in Choices :
         wb_read_pass([dut EXCEPT !.wb_adr_i = addr % 256, !.wb_sel_i = 15,
                                  !.wb_we_i = 0, !.wb_stb_i = 1,
                                  !.wb_cyc_i = 1], <<>>, ch)
    /\ call' = [op |-> "read", addr |-> addr, outcome |-> "none"]
    /\ Logged(call')
    /\ prev' = IF call.op = "reset" THEN [op |-> "reset", outcome |-> outcome]
               ELSE [call EXCEPT !.outcome = outcome]
    /\ clean' = IF call.op \in {"write", "read"} /\ outcome = "completed"
                THEN clean + 1 ELSE 0
    /\ ret' = Void
    /\ Entered

wb_read_WAIT ==
    /\ IsWB
    /\ pc = "r_wait"
    /\ \E ch \in Choices : wb_read_pass(dut, trace, ch)
    /\ UNCHANGED <<call, prev, clean, ret, script>>
    /\ UNCHANGED aside

wb_read_RELEASE ==
    /\ IsWB
    /\ pc = "r_idle"
    /\ \E ch \in Choices :
         DoTick([dut EXCEPT !.wb_stb_i = 0, !.wb_cyc_i = 0], trace, ch)
    /\ pc' = "idle"
    /\ ret' = val
    /\ val' = W0
    /\ UNCHANGED <<variant, call, prev, i, cycles, outcome, clean, script>>
    /\ UNCHANGED aside

(* ---------------- calls issued freely by a test scenario ---------------- *)

\* the first call of every main() is the reset; further calls are issued
\* while twice the number of tick() calls is below MaxSimTime
CanCall ==
    script = <<>> /\ pc = "idle" /\ wx.at = "none" /\ 2 * ticks < MaxSimTime

call_do_reset ==
    /\ script = <<>> /\ (pc = "start" \/ CanCall)
    /\ do_reset_assert
    /\ script' = script
    /\ wx' = wx

call_apb_write ==
    /\ CanCall
    /\ \E a \in AddrSet, w \in DataSet, s \in StrbSet : apb_write_SETUP(a, w, s)
    /\ script' = script
    /\ wx' = wx

call_apb_read ==
    /\ CanCall
    /\ \E a \in AddrSet : apb_read_SETUP(a)
    /\ script' = script
    /\ wx' = wx

call_reset ==
    /\ script = <<>> /\ (pc = "start" \/ CanCall)
    /\ reset_assert
    /\ script' = script
    /\ wx' = wx

call_wb_write ==
    /\ CanCall
    /\ \E a \in AddrSet, w \in DataSet : wb_write_REQUEST(a, w)
    /\ script' = script
    /\ wx' = wx

call_wb_read ==
    /\ CanCall
    /\ \E a \in AddrSet : wb_read_REQUEST(a)
    /\ script' = script
    /\ wx' = wx

Next ==
    \/ call_do_reset
    \/ call_apb_write
    \/ call_apb_read
    \/ call_reset
    \/ call_wb_write
    \/ call_wb_read
    \/ do_reset_loop
    \/ do_reset_release
    \/ apb_write_ACCESS
    \/ apb_write_WAIT
    \/ apb_write_HOLD
    \/ apb_write_IDLE
    \/ apb_read_ACCESS
    \/ apb_read_WAIT
    \/ apb_read_HOLD
    \/ apb_read_IDLE
    \/ reset_loop
    \/ reset_release
    \/ wb_write_WAIT
    \/ wb_write_RELEASE
    \/ wb_read_WAIT
    \/ wb_read_RELEASE

Spec == Init /\ [][Next]_vars

(* ---------------- main() of sim_qspi_psram.cpp, Tests 1 and 3 ---------------- *)

Wr(a, w, s) == [op |-> "write", addr |-> a, data |-> w, strb |-> s]

Rd(a) == [op |-> "read", addr |-> a]

MainScript ==
    << [op |-> "reset"],
       Wr(256, <<170, 0, 0, 0>>, 1), Wr(256, <<0, 187, 0, 0>>, 2),
       Wr(256, <<0, 0, 204, 0>>, 4), Wr(256, <<0, 0, 0, 221>>, 8), Rd(256),
       Wr(768, <<17, 34, 0, 0>>, 3), Wr(768, <<0, 0, 51, 68>>, 12), Rd(768) >>

InitTests ==
    /\ variant = "qspi"
    /\ mem = [a \in {256, 768} |-> W0]
    /\ script = MainScript
    /\ tfp = TRUE
    /\ log = NoLog
    /\ InitCommon

\* main() makes its next call as soon as the previous one has returned
main_call ==
    /\ script # <<>>
    /\ LET c == Head(script)
       IN  \/ c.op = "reset" /\ do_reset_assert
           \/ c.op = "write" /\ apb_write_SETUP(c.addr, c.data, c.strb)
           \/ c.op = "read" /\ apb_read_SETUP(c.addr)
    /\ script' = Tail(script)
    /\ wx' = wx

NextTests ==
    \/ main_call
    \/ do_reset_loop
    \/ do_reset_release
    \/ apb_write_ACCESS
    \/ apb_write_WAIT
    \/ apb_write_HOLD
    \/ apb_write_IDLE
    \/ apb_read_ACCESS
    \/ apb_read_WAIT
    \/ apb_read_HOLD
    \/ apb_read_IDLE

SpecTests == InitTests /\ [][NextTests]_vars

(* ---------------- wait_xfer_done() of the Wishbone testbench ---------------- *)

\* values of the timeout argument
WaitTimeouts == {-1, 0, 2}

\* everything but wx, chk, script and what wb_read writes
WaitFrame ==
    UNCHANGED <<variant, dut, out, mem, pc, call, prev, i, cycles, val, ret,
                outcome, clean, trace, sim_time, tfp, ticks, test_pass,
                test_fail, exit_status, psram_mem, io, log>>

\* the loop condition tested as timeout-- >= 0
wait_xfer_done_pass_off_by_one(w) ==
    IF w.timeout >= 0
    THEN /\ wb_read_REQUEST(ADDR_CTRL)
         /\ wx' = [w EXCEPT !.at = "read", !.timeout = @ - 1]
    ELSE /\ wx' = [w EXCEPT !.at = "none", !.timeout = @ - 1,
                            !.result = "false"]
         /\ chk' = NoChk
         /\ WaitFrame

\* while (timeout-- > 0) { ctrl = wb_read(ADDR_CTRL); ...: the condition is
\* tested on the locals w; a true condition issues the read, a false one
\* ends the loop and the function returns false
wait_xfer_done_pass(w) ==
    IF w.timeout > 0
    THEN /\ wb_read_REQUEST(ADDR_CTRL)
         /\ wx' = [w EXCEPT !.at = "read", !.timeout = @ - 1]
    ELSE /\ wx' = [w EXCEPT !.at = "none", !.timeout = @ - 1,
                            !.result = "false"]
         /\ chk' = NoChk
         /\ WaitFrame

\* the call: the loop condition is tested for the first time
wait_xfer_done_ENTER(timeout) ==
    /\ IsWB
    /\ pc = "idle"
    /\ wx.at = "none"
    /\ wait_xfer_done_pass([at |-> "loop", timeout |-> timeout,
                            given |-> timeout, flags |-> <<>>,
                            result |-> "none"])

\* wb_read has returned ctrl: return true when GO is clear, test the loop
\* condition again otherwise
wait_xfer_done_POLL ==
    /\ IsWB
    /\ pc = "idle"
    /\ wx.at = "read"
    /\ LET w == [wx EXCEPT !.flags = Append(@, CTRL_GO(ret))]
       IN  IF ~CTRL_GO(ret)
           THEN /\ wx' = [w EXCEPT !.at = "none", !.result = "true"]
                /\ chk' = chk
                /\ WaitFrame
           ELSE wait_xfer_done_pass(w)
    /\ script' = script

(* ---------------- check() ---------------- *)

\* expected values and masks check() is called with; the actual value is
\* what the last read returned
CheckExpected == {DEADBEEF, <<111, 0, 0, 0>>}

CheckMasks == {WFF, <<127, 0, 0, 0>>}

\* bitwise and of two bytes, of two words
And8(a, b) ==
    LET f[k \in 0..8] ==
            IF k = 8 THEN 0 ELSE Bit(a, k) * Bit(b, k) * (2 ^ k) + f[k + 1]
    IN  f[0]

\* bitwise or of two bytes
Or8(a, b) ==
    LET f[k \in 0..8] ==
            IF k = 8 THEN 0
            ELSE (IF Bit(a, k) + Bit(b, k) > 0 THEN 2 ^ k ELSE 0) + f[k + 1]
    IN  f[0]

AndW(x, y) == [k \in 1..4 |-> And8(x[k], y[k])]

\* everything but the counters, chk and script
CheckFrame ==
    UNCHANGED <<variant, dut, out, mem, pc, call, prev, i, cycles, val, ret,
                outcome, clean, trace, sim_time, tfp, ticks, exit_status, wx,
                psram_mem, io, log>>

\* check() with the mask applied to the actual value only
check_masks_actual_only(expected, actual, mask) ==
    /\ pc = "idle"
    /\ IF AndW(actual, mask) = expected
       THEN test_pass' = test_pass + 1 /\ test_fail' = test_fail
       ELSE test_fail' = test_fail + 1 /\ test_pass' = test_pass
    /\ chk' = [made |-> TRUE, expected |-> expected, actual |-> actual,
               mask |-> mask]
    /\ CheckFrame

check(expected, actual, mask) ==
    /\ pc = "idle"
    /\ IF AndW(actual, mask) = AndW(expected, mask)
       THEN test_pass' = test_pass + 1 /\ test_fail' = test_fail
       ELSE test_fail' = test_fail + 1 /\ test_pass' = test_pass
    /\ chk' = [made |-> TRUE, expected |-> expected, actual |-> actual,
               mask |-> mask]
    /\ CheckFrame

(* ---------------- end of main() ---------------- *)

\* the handle, the device and the edge record s after one more tick() t
Ticked_once(s, t) ==
    [dut |-> t.dut, out |-> t.out, mem |-> t.mem,
     trace |-> Append(s.trace, t.ent)]

\* n more calls of tick() with the inputs left as they are
RECURSIVE Ticks(_, _, _)

\* the remaining n calls, run on the state s once the call before has
\* produced it
TicksOn(n, s, ch) == IF s \in {s} THEN Ticks(n, s, ch) ELSE s

Ticks(n, s, ch) ==
    IF n = 0 THEN s
    ELSE TicksOn(n - 1, Ticked_once(s, Tick(s.dut, s.out, s.mem, ch)), ch)

\* what the ticks that complete the waveform write to the shared state
cool_down(s) ==
    /\ dut' = s.dut
    /\ out' = s.out
    /\ mem' = s.mem
    /\ trace' = s.trace

\* the exit status taken from a fail counter of more than one
main_status_above_one(fails) == IF fails > 1 THEN 1 ELSE 0

\* return test_fail > 0 ? 1 : 0
main_status(fails) == IF fails > 0 THEN 1 ELSE 0

\* the 20 ticks that complete the waveform, then the return of main()
main_exit ==
    /\ pc = "idle"
    /\ wx.at = "none"
    /\ \E ch \in Choices :
         cool_down(Ticks(20, [dut |-> dut, out |-> out, mem |-> mem,
                              trace |-> trace], ch))
    /\ sim_time' = IF tfp THEN sim_time + 40 ELSE sim_time
    /\ ticks' = ticks + 20
    /\ exit_status' = main_status(test_fail)
    /\ pc' = "exit"
    /\ chk' = NoChk
    /\ UNCHANGED <<variant, call, prev, i, cycles, val, ret, outcome, clean,
                   tfp, test_pass, test_fail, wx, psram_mem, io, log>>

(* ---------------- a whole session: main() of sim_spi_top.cpp and of sim_qspi_psram.cpp ---------------- *)

\* the calls of main() in their order, the arguments left open: reset, a
\* transfer (write, poll, read) or a write and a read, a check of the value
\* read, a second read and check, the return.  Only the Wishbone testbench
\* polls.
SessionScript(v) ==
    IF v = "spi_top"
    THEN <<"reset", "write", "wait", "read", "check", "read", "check",
           "exit">>
    ELSE <<"reset", "write", "read", "check", "read", "check", "exit">>

\* the register a session writes and reads, and the words it writes:
\* 0xDEADBFEF, which has GO set, and 0xDEADBEEF, which has it clear
SessionAddr == IF IsWB THEN ADDR_CTRL ELSE 256

SessionData == {<<239, 191, 173, 222>>, DEADBEEF}

\* the two testbenches whose calls can time out
InitSession ==
    /\ variant \in {"qspi", "spi_top"}
    /\ mem = [a \in AddrSet |-> W0]
    /\ script = SessionScript(variant)
    /\ tfp = TRUE
    /\ log = NoLog
    /\ InitCommon

\* main() makes its next call as soon as the previous one has returned
session_call ==
    /\ script # <<>>
    /\ wx.at = "none"
    /\ LET c == Head(script)
       IN  \/ /\ c = "reset"
              /\ IF IsWB THEN reset_assert ELSE do_reset_assert
              /\ wx' = wx
           \/ /\ c = "write"
              /\ IF IsWB
                 THEN \E w \in SessionData : wb_write_REQUEST(SessionAddr, w)
                 ELSE \E w \in SessionData :
                          apb_write_SETUP(SessionAddr, w, 15)
              /\ wx' = wx
           \/ /\ c = "read"
              /\ IF IsWB
                 THEN wb_read_REQUEST(SessionAddr)
                 ELSE apb_read_SETUP(SessionAddr)
              /\ wx' = wx
           \/ /\ c = "wait"
              /\ \E t \in WaitTimeouts : wait_xfer_done_ENTER(t)
           \/ /\ c = "check"
              /\ \E e \in CheckExpected, m \in CheckMasks : check(e, ret, m)
           \/ /\ c = "exit"
              /\ main_exit
    /\ script' = Tail(script)

NextSession ==
    \/ session_call
    \/ wait_xfer_done_POLL
    \/ do_reset_loop
    \/ do_reset_release
    \/ apb_write_ACCESS
    \/ apb_write_WAIT
    \/ apb_write_HOLD
    \/ apb_write_IDLE
    \/ apb_read_ACCESS
    \/ apb_read_WAIT
    \/ apb_read_HOLD
    \/ apb_read_IDLE
    \/ reset_loop
    \/ reset_release
    \/ wb_write_WAIT
    \/ wb_write_RELEASE
    \/ wb_read_WAIT
    \/ wb_read_RELEASE

SpecSession == InitSession /\ [][NextSession]_vars

(* ---------------- tick() with and without a trace sink ---------------- *)

\* tick() tests tfp before every dump: the calls of the four testbenches
\* made with a trace sink attached and with none attached
InitTick ==
    /\ variant \in Variants
    /\ mem = [a \in AddrSet |-> W0]
    /\ script = <<>>
    /\ tfp \in BOOLEAN
    /\ log = NoLog
    /\ InitCommon

SpecTick == InitTick /\ [][Next]_vars

(* ---------------- psram_read() and psram_write() ---------------- *)

\* (uint8_t)data of a char
to_uint8(c) == c % 256

\* (char)byte read as the byte itself
to_char_unsigned(u) == u

\* (char)byte of a byte of the array, char being signed on the build host
to_char(u) == IF u >= 128 THEN u - 256 ELSE u

\* everything but psram_mem and io
PsramFrame ==
    UNCHANGED <<variant, dut, out, mem, pc, call, prev, i, cycles, val, ret,
                outcome, clean, trace, sim_time, script, tfp, ticks,
                test_pass, test_fail, chk, exit_status, wx, log>>

psram_read(addr) ==
    /\ io' = [op |-> "read", addr |-> addr,
              data |-> to_char(psram_mem[psram_index(addr)])]
    /\ psram_mem' = psram_mem
    /\ PsramFrame

psram_write(addr, data) ==
    /\ psram_mem' = [psram_mem EXCEPT ![psram_index(addr)] = to_uint8(data)]
    /\ io' = [op |-> "write", addr |-> addr, data |-> data]
    /\ PsramFrame

\* the simulated model calls the two functions with any address and byte
dpi_psram_read == \E a \in PsramAddrs : psram_read(a)

dpi_psram_write == \E a \in PsramAddrs, b \in PsramBytes : psram_write(a, b)

\* main() has cleared the array (memset) before the model is evaluated
InitPsram ==
    /\ variant = "qspi"
    /\ mem = [a \in AddrSet |-> W0]
    /\ script = <<>>
    /\ tfp = TRUE
    /\ log = NoLog
    /\ InitCommon

NextPsram ==
    \/ dpi_psram_read
    \/ dpi_psram_write

SpecPsram == InitPsram /\ [][NextPsram]_vars

(* ---------------- bitrev_transfer() and spi_transfer() ---------------- *)

\* register addresses of the SPI master
ADDR_TX0 == 0

ADDR_DIVIDE == 20

ADDR_SS == 24

\* the default of the timeout argument of wait_xfer_done (100000 in the
\* source), scaled
XFER_TIMEOUT == 2

\* a value below 256 as a 32-bit word
Word(n) == <<n % 256, 0, 0, 0>>

\* (char_len & 0x7F) | CTRL_ASS | CTRL_TX_NEG, with CTRL_GO when go: bits
\* 13, 10 and 8 are bits 5, 2 and 0 of the second lane
ctrl_word(char_len, go) ==
    <<And8(char_len % 256, 127), Or8(Or8(IF go THEN 1 ELSE 0, 32), 4), 0, 0>>

\* bitrev_transfer issuing the start command before the transmit data
bitrev_transfer_go_first(tx_byte, divider) ==
    << [op |-> "begin", helper |-> "bitrev_transfer"],
       Wr(ADDR_DIVIDE, Word(divider), 15),
       Wr(ADDR_SS, Word(1), 15),
       Wr(ADDR_CTRL, ctrl_word(16, FALSE), 15),
       Wr(ADDR_CTRL, ctrl_word(16, TRUE), 15),
       Wr(ADDR_TX0, <<0, tx_byte % 256, 0, 0>>, 15),
       Rd(ADDR_TX0),
       [op |-> "return"] >>

\* the calls of bitrev_transfer(tx_byte, divider) in their order
bitrev_transfer(tx_byte, divider) ==
    << [op |-> "begin", helper |-> "bitrev_transfer"],
       Wr(ADDR_DIVIDE, Word(divider), 15),
       Wr(ADDR_SS, Word(1), 15),
       Wr(ADDR_TX0, <<0, tx_byte % 256, 0, 0>>, 15),
       Wr(ADDR_CTRL, ctrl_word(16, FALSE), 15),
       Wr(ADDR_CTRL, ctrl_word(16, TRUE), 15),
       Rd(ADDR_TX0),
       [op |-> "return"] >>

\* the calls of spi_transfer(tx_data, char_len, divider) in their order; the
\* Wishbone testbench polls with wait_xfer_done() before it reads
spi_transfer(tx_data, char_len, divider) ==
    << [op |-> "begin", helper |-> "spi_transfer"],
       Wr(ADDR_DIVIDE, Word(divider), 15),
       Wr(ADDR_SS, Word(1), 15),
       Wr(ADDR_TX0, tx_data, 15),
       Wr(ADDR_CTRL, ctrl_word(char_len, TRUE), 15) >>
    \o (IF IsWB THEN <<[op |-> "wait", timeout |-> XFER_TIMEOUT]>>
                ELSE <<>>)
    \o << Rd(ADDR_TX0), [op |-> "return"] >>

\* the transfers main() asks for first: the warm-up and, in the APB
\* testbenches, the first test
TransferScripts(v) ==
    IF v = "bitrev" THEN {bitrev_transfer(b, 0) : b \in {255, 83}}
    ELSE IF v = "chisel"
    THEN {spi_transfer(w, 8, 4) : w \in {<<255, 0, 0, 0>>, <<165, 0, 0, 0>>}}
    ELSE {spi_transfer(<<255, 0, 0, 0>>, 8, 2)}

\* main() of the three SPI testbenches up to the return of its first
\* transfer
InitTransfer ==
    /\ variant \in {"bitrev", "chisel", "spi_top"}
    /\ mem = [a \in {ADDR_TX0, ADDR_CTRL, ADDR_DIVIDE, ADDR_SS} |-> W0]
    /\ \E t \in TransferScripts(variant) : script = <<[op |-> "reset"]>> \o t
    /\ tfp = TRUE
    /\ log = NoLog
    /\ InitCommon

\* everything but log, ret and script
TransferFrame ==
    UNCHANGED <<variant, dut, out, mem, pc, call, prev, i, cycles, val,
                outcome, clean, trace, sim_time, tfp, ticks, test_pass,
                test_fail, chk, exit_status, wx, psram_mem, io>>

\* the helper, and main() before it, make the next call as soon as the
\* previous one has returned; bitrev_transfer returns (uint8_t)(rx & 0xFF)
transfer_call ==
    /\ script # <<>>
    /\ wx.at = "none"
    /\ LET c == Head(script)
       IN  \/ /\ c.op = "reset"
              /\ IF IsWB THEN reset_assert ELSE do_reset_assert
              /\ wx' = wx
           \/ /\ c.op = "begin"
              /\ pc = "idle"
              /\ log' = [helper |-> c.helper, calls |-> <<>>,
                         returned |-> FALSE]
              /\ ret' = ret
              /\ TransferFrame
           \/ /\ c.op = "write"
              /\ IF IsWB THEN wb_write_REQUEST(c.addr, c.data)
                         ELSE apb_write_SETUP(c.addr, c.data, c.strb)
              /\ wx' = wx
           \/ /\ c.op = "read"
              /\ IF IsWB THEN wb_read_REQUEST(c.addr)
                         ELSE apb_read_SETUP(c.addr)
              /\ wx' = wx
           \/ /\ c.op = "wait"
              /\ wait_xfer_done_ENTER(c.timeout)
           \/ /\ c.op = "return"
              /\ pc = "idle"
              /\ log' = [log EXCEPT !.returned = TRUE]
              /\ ret' = IF log.helper = "bitrev_transfer"
                        THEN <<And8(ret[1], 255), 0, 0, 0>> ELSE ret
              /\ TransferFrame
    /\ script' = Tail(script)

NextTransfer ==
    \/ transfer_call
    \/ wait_xfer_done_POLL
    \/ do_reset_loop
    \/ do_reset_release
    \/ apb_write_ACCESS
    \/ apb_write_WAIT
    \/ apb_write_IDLE
    \/ apb_read_ACCESS
    \/ apb_read_WAIT
    \/ apb_read_IDLE
    \/ reset_loop
    \/ reset_release
    \/ wb_write_WAIT
    \/ wb_write_RELEASE
    \/ wb_read_WAIT
    \/ wb_read_RELEASE

SpecTransfer == InitTransfer /\ [][NextTransfer]_vars

(* ---------------- bit_reverse() of sim_bitrev_spi.cpp ---------------- *)

\* (uint8_t)(((b & hi) >> n) | ((b & lo) << n)): one statement of
\* bit_reverse
swap_fields(b, hi, lo, n) ==
    to_uint8(Or8(And8(b, hi) \div (2 ^ n), And8(b, lo) * (2 ^ n)))

\* bit_reverse without its last statement, the swap of neighbouring bits
bit_reverse_no_pair_swap(b) ==
    swap_fields(swap_fields(b, 240, 15, 4), 204, 51, 2)

\* bit_reverse: swap the nibbles, then the bit pairs, then neighbouring bits
bit_reverse(b) ==
    swap_fields(swap_fields(swap_fields(b, 240, 15, 4), 204, 51, 2),
                170, 85, 1)

\* everything but io
BitrevFrame ==
    UNCHANGED <<variant, dut, out, mem, pc, call, prev, i, cycles, val, ret,
                outcome, clean, trace, sim_time, script, tfp, ticks,
                test_pass, test_fail, chk, exit_status, wx, psram_mem,
                log>>

\* main() computes the expected value of a test case: any uint8_t argument
call_bit_reverse ==
    /\ \E b \in 0..255 :
         io' = [op |-> "bit_reverse", arg |-> b, res |-> bit_reverse(b)]
    /\ BitrevFrame

InitBitrev ==
    /\ variant = "bitrev"
    /\ mem = [a \in AddrSet |-> W0]
    /\ script = <<>>
    /\ tfp = TRUE
    /\ log = NoLog
    /\ InitCommon

NextBitrev == call_bit_reverse

SpecBitrev == InitBitrev /\ [][NextBitrev]_vars

(* ---------------- properties ---------------- *)

WaitPcs == {"w_wait", "r_wait"}

Returned == pc = "idle" /\ call.op \in {"write", "read"}

Completed == Returned /\ outcome = "completed"

\* select and enable (cycle and strobe) are de-asserted
ReqLow(d) ==
    IF IsWB THEN d.wb_cyc_i = 0 /\ d.wb_stb_i = 0
            ELSE d.psel = 0 /\ d.penable = 0

\* C1: a write or read whose readiness never reads true leaves its wait loop
\* after a bounded number of edges: no call is still waiting once it has
\* advanced more than MAX_CYCLES loop edges.
C1_WaitIsBounded == pc \in WaitPcs => LoopEdges <= MAX_CYCLES

\* C2: the outcome handed to the caller tells a timed-out call from a
\* completed one: a completed write or read never returns what the timed-out
\* call of the same kind returns.
C2_TimeoutDistinguishable ==
    (IsQSPI /\ Completed) => ret # TimedOutReturn(call.op)

\* C3: a write or read is issued only when the previous write or read has
\* de-asserted select and enable (cycle and strobe) and has advanced its
\* teardown edge with them de-asserted.
C3_IssuedFromIdle ==
    [][(Returned /\ pc' # "idle" /\ call'.op \in {"write", "read"})
         => (ReqLow(dut) /\ trace # <<>> /\ ReqLow(Last(trace).in))]_vars

\* C4: when a completed write or read returns, select, enable and the write
\* direction (cycle, strobe and write-enable) are zero and exactly one edge,
\* the last one, has been advanced with them zero.
C4_ReleasedOnReturn ==
    Completed =>
        /\ ReqLow(dut) /\ We(dut) = 0
        /\ Len(trace) >= 2
        /\ ReqLow(Last(trace).in) /\ We(Last(trace).in) = 0
        /\ \A k \in 1..(Len(trace) - 1) : ~ReqLow(trace[k].in)

C4_Witness ==
    Completed /\ call.op = "write" /\ IsWB /\ Len(trace) >= 3

\* index of the edge after which readiness was first sampled true with the
\* request fully asserted
FirstReady ==
    CHOOSE k \in 1..Len(trace) :
        /\ ReqActive(trace[k].in) /\ trace[k].out.ready
        /\ \A j \in 1..(k - 1) : ~(ReqActive(trace[j].in) /\ trace[j].out.ready)

\* readiness has been sampled true with the request fully asserted
HasReady ==
    \E k \in 1..Len(trace) : ReqActive(trace[k].in) /\ trace[k].out.ready

\* number of loop edges after which readiness read false (wait states)
WaitStates ==
    Cardinality({k \in 1..Len(trace) :
                    ReqActive(trace[k].in) /\ ~trace[k].out.ready /\ k < FirstReady})

\* edges of a transaction whose readiness reads true after the first loop edge
ZeroWaitEdges == IF IsWB THEN 2 ELSE IF IsQSPI THEN 4 ELSE 3

\* C5: a completed write or read whose readiness read false after each of
\* the first N loop edges and true after the next one has advanced exactly N
\* edges more than the zero-wait transaction of its testbench.
C5_WaitStateExact ==
    Completed => (HasReady /\ Len(trace) = ZeroWaitEdges + WaitStates)

C5_Witness == Completed /\ WaitStates >= 2 /\ variant = "bitrev"

\* C6: a completed read returns the data output as it stood after the edge
\* on which readiness was first sampled true.
C6_ReadSampledAtReady ==
    (Completed /\ call.op = "read") =>
        (HasReady /\ ret = trace[FirstReady].out.data)

C6_Witness ==
    Completed /\ call.op = "read" /\ ret # out.data /\ variant = "chisel"

\* C7: in the QSPI testbench a completed write or read advances, after the
\* edge on which readiness was first sampled true, exactly one edge with the
\* same inputs (select and enable still asserted) and then the teardown edge
\* with select and enable de-asserted.
C7_HoldEdge ==
    (IsQSPI /\ Completed) =>
        /\ HasReady
        /\ Len(trace) = FirstReady + 2
        /\ trace[FirstReady + 1].in = trace[FirstReady].in
        /\ trace[FirstReady].in.psel = 1 /\ trace[FirstReady].in.penable = 1
        /\ ReqLow(trace[FirstReady + 2].in)

C7_Witness ==
    IsQSPI /\ Completed /\ call.op = "read" /\ FirstReady >= 3

\* C8: through the handshake bus master, a completed read that follows a
\* completed full-mask write to the same address returns the written word.
C8_RoundTrip ==
    (/\ ~IsWB /\ Completed /\ call.op = "read"
     /\ prev.op = "write" /\ prev.outcome = "completed"
     /\ prev.addr = call.addr /\ prev.strb = 15)
    => ret = prev.data

C8_Witness ==
    /\ IsQSPI /\ Completed /\ call.op = "read"
    /\ prev.op = "write" /\ prev.outcome = "completed"
    /\ prev.addr = call.addr /\ prev.strb = 15
    /\ ret = DEADBEEF /\ WaitStates >= 1

\* C9: apb_write drives the byte-enable mask it is given at every edge of
\* the transaction, and against the byte-lane reference memory the four
\* single-byte writes of Test 1 read back as 0xDDCCBBAA and the two
\* half-word writes of Test 3 as 0x44332211.
C9_ByteEnables ==
    /\ (call.op = "write" =>
            \A k \in 1..Len(trace) :
                trace[k].in.psel = 1 => trace[k].in.pstrb = call.strb)
    /\ ((Completed /\ call.op = "read" /\ Len(script) = 3 /\ clean >= 4)
            => ret = <<170, 187, 204, 221>>)
    /\ ((Completed /\ call.op = "read" /\ Len(script) = 0 /\ clean >= 2)
            => ret = <<17, 34, 51, 68>>)

C9_Witness ==
    /\ Completed /\ call.op = "read" /\ script = <<>> /\ clean = 7
    /\ ret = <<17, 34, 51, 68>>
    /\ mem[256] = <<170, 187, 204, 221>>

\* all request signals are zero
ReqZero(d) ==
    IF IsWB
    THEN /\ d.wb_adr_i = 0 /\ d.wb_dat_i = W0 /\ d.wb_sel_i = 0
         /\ d.wb_we_i = 0 /\ d.wb_cyc_i = 0 /\ d.wb_stb_i = 0
    ELSE /\ d.paddr = 0 /\ d.pwdata = W0 /\ d.pstrb = 0
         /\ d.pwrite = 0 /\ d.psel = 0 /\ d.penable = 0

\* C10: reset advances at least 10 edges with reset active and every request
\* signal zero, then exactly one edge with reset released; on return reset
\* is inactive and the request signals are still zero.
C10_ResetSequence ==
    /\ (pc = "reset_loop" =>
            \A k \in 1..Len(trace) : Rst(trace[k].in) = 1 /\ ReqZero(trace[k].in))
    /\ ((pc = "idle" /\ call.op = "reset") =>
            /\ Len(trace) >= 11
            /\ \A k \in 1..(Len(trace) - 1) :
                   Rst(trace[k].in) = 1 /\ ReqZero(trace[k].in)
            /\ Rst(Last(trace).in) = 0 /\ ReqZero(Last(trace).in)
            /\ Rst(dut) = 0 /\ ReqZero(dut))

C10_Witness ==
    /\ pc = "idle" /\ call.op = "reset"
    /\ Adr(call.before) # 0 /\ WDat(call.before) # W0 /\ Sel(call.before) # 0

\* the signals the driver owns: reset, clock level, address, write data,
\* byte enables, direction, select and enable (cycle and strobe)
Owned(d) ==
    IF IsWB
    THEN <<d.wb_rst_i, d.wb_clk_i, d.wb_adr_i, d.wb_dat_i, d.wb_sel_i,
           d.wb_we_i, d.wb_cyc_i, d.wb_stb_i>>
    ELSE <<d.reset, d.clock, d.paddr, d.pwdata, d.pstrb, d.pwrite, d.psel,
           d.penable>>

\* C11: a reset called right after a reset leaves every signal the driver
\* owns (reset, clock level, address, write data, byte enables, direction,
\* select and enable, or cycle and strobe) as the first reset left it.
C11_ResetIdempotent ==
    (pc = "idle" /\ call.op = "reset" /\ prev.op = "reset")
        => Owned(dut) = Owned(call.before)

C11_Witness ==
    /\ pc = "idle" /\ call.op = "reset" /\ prev.op = "reset"
    /\ variant = "bitrev" /\ Len(trace) = 11

Selected(d) == IF IsWB THEN d.wb_cyc_i = 1 ELSE d.psel = 1

\* C17: every APB write or read starts with exactly one edge advanced with
\* select asserted and enable de-asserted, with address, byte enables,
\* direction (and write data for a write) already driven; enable is asserted
\* only after that edge.
C17_SetupPhase ==
    (~IsWB /\ call.op \in {"write", "read"} /\ trace # <<>>) =>
        LET s == trace[1].in
            w == call.op = "write"
        IN  /\ s.psel = 1 /\ s.penable = 0
            /\ s.paddr = (IF IsQSPI THEN call.addr ELSE call.addr % 256)
            /\ s.pwrite = (IF w THEN 1 ELSE 0)
            /\ s.pstrb = (IF w /\ IsQSPI THEN call.strb ELSE 15)
            /\ (w => s.pwdata = call.data)
            /\ (pc \in {"w_access", "r_access"} => dut.penable = 0)
            /\ \A k \in 2..Len(trace) :
                   trace[k].in.psel = 1 => trace[k].in.penable = 1

C17_Witness ==
    /\ IsQSPI /\ call.op = "write" /\ pc = "w_wait"
    /\ prev.op = "read" /\ prev.outcome = "timeout"

\* C18: within one write or read the address, the write data, the byte
\* enables and the direction keep the values driven when the request was
\* asserted, at every edge advanced with the request selected (up to and
\* including the ready edge or the timeout edge) and between those edges.
C18_RequestStable ==
    (call.op \in {"write", "read"} /\ trace # <<>>) =>
        LET s == trace[1].in
            same(d) == /\ Adr(d) = Adr(s) /\ WDat(d) = WDat(s)
                       /\ Sel(d) = Sel(s) /\ We(d) = We(s)
        IN  /\ Adr(s) = (IF IsQSPI THEN call.addr ELSE call.addr % 256)
            /\ (call.op = "write" => WDat(s) = call.data /\ We(s) = 1)
            /\ (call.op = "read" => We(s) = 0)
            /\ \A k \in 1..Len(trace) : Selected(trace[k].in) => same(trace[k].in)
            /\ (Selected(dut) => same(dut))

C18_Witness ==
    /\ IsQSPI /\ Returned /\ outcome = "timeout" /\ call.op = "write"
    /\ call.data = DEADBEEF /\ Len(trace) = MAX_CYCLES + 4

\* C19: in the loopback testbenches every evaluation of tick() sees the
\* serial input equal to the serial output of the evaluation before it: the
\* first evaluation that of the last evaluation before the call, the second
\* that of the first.  This holds during reset too, where the zero written
\* to the serial input is replaced before the first evaluation.
C19_LoopbackFed ==
    [][(Loopback /\ trace' # trace /\ trace' # <<>>) =>
          LET e == Last(trace').ev
          IN  /\ e[1].miso = out.mosi
              /\ e[2].miso = e[1].out.mosi]_vars

C19_Witness ==
    /\ Loopback /\ call.op = "reset" /\ pc = "reset_loop" /\ trace # <<>>
    /\ Miso(call.before) = 0 /\ trace[1].ev[1].miso = 1

\* C12: wait_xfer_done(timeout) reads the control register again and again;
\* it returns true right after the first read whose GO flag is clear, every
\* read before it having shown the flag set; it returns false after exactly
\* `timeout` reads that all showed the flag set, and after no read at all
\* when timeout <= 0.  While it runs, no read follows one that showed the
\* flag clear and no more than `timeout` reads are issued.
C12_WaitUntilNotBusy ==
    LET n == Len(wx.flags)
        issued == IF wx.at = "read" THEN n + 1 ELSE n
        budget == IF wx.given > 0 THEN wx.given ELSE 0
    IN  /\ issued <= budget
        /\ \A k \in 1..(n - 1) : wx.flags[k]
        /\ (wx.at = "read" => \A k \in 1..n : wx.flags[k])
        /\ (wx.result = "true" => wx.at = "none" /\ n >= 1 /\ ~wx.flags[n])
        /\ (wx.result = "false" =>
                wx.at = "none" /\ n = budget /\ \A k \in 1..n : wx.flags[k])

C12_Witness ==
    /\ wx.at = "none" /\ wx.result = "true" /\ wx.given = 2
    /\ wx.flags = <<TRUE, FALSE>>

\* C13: check(name, expected, actual, mask) adds one to test_pass and leaves
\* test_fail alone when (expected & mask) = (actual & mask), adds one to
\* test_fail and leaves test_pass alone otherwise; no other step (reset,
\* write, read, poll, timeout, return of main) changes either counter.
C13_CheckCounts ==
    [][IF chk'.made
       THEN IF AndW(chk'.expected, chk'.mask) = AndW(chk'.actual, chk'.mask)
            THEN test_pass' = test_pass + 1 /\ test_fail' = test_fail
            ELSE test_fail' = test_fail + 1 /\ test_pass' = test_pass
       ELSE test_pass' = test_pass /\ test_fail' = test_fail]_vars

C13_Witness ==
    /\ chk.made /\ chk.mask = <<127, 0, 0, 0>> /\ chk.expected # chk.actual
    /\ test_pass = 2 /\ test_fail = 0

\* C14: main() returns 0 exactly when test_fail is zero at the end of the
\* run, and 1 otherwise; a timed-out write or read or a timed-out
\* wait_xfer_done does not by itself change what it returns.
C14_ExitStatus ==
    IF pc = "exit"
    THEN /\ exit_status \in {0, 1}
         /\ exit_status = 0 <=> test_fail = 0
    ELSE exit_status = NoExit

C14_Witness ==
    /\ pc = "exit" /\ exit_status = 0 /\ test_pass = 2
    /\ wx.result = "false" /\ wx.given = 2

SameCell(a, b) == (a - b) % (PSRAM_MASK + 1) = 0

\* C20 as claimed: a psram_read(a') that follows a psram_write(a, b) returns
\* b exactly when a and a' are congruent modulo 2^20; psram_write changes no
\* cell but the one at a mod 2^20 and psram_read changes no cell.
C20_ExactlyWhen ==
    [][/\ (io.op = "write" /\ io'.op = "read")
            => (io'.data = io.data <=> SameCell(io.addr, io'.addr))
       /\ io'.op = "write"
            => \A c \in PsramCells \ {io'.addr % (PSRAM_MASK + 1)} :
                   psram_mem'[c] = psram_mem[c]
       /\ io'.op = "read" => psram_mem' = psram_mem]_vars

\* C20: a psram_read(a') that follows a psram_write(a, b) returns b whenever
\* a and a' are congruent modulo 2^20, negative addresses included (for any
\* other a' it returns what its own cell holds, which may equal b);
\* psram_write changes no cell but the one at a mod 2^20 and psram_read
\* changes no cell.
C20_ModuloAddressing ==
    [][/\ (io.op = "write" /\ io'.op = "read" /\ SameCell(io.addr, io'.addr))
            => io'.data = io.data
       /\ io'.op = "write"
            => \A c \in PsramCells \ {io'.addr % (PSRAM_MASK + 1)} :
                   psram_mem'[c] = psram_mem[c]
       /\ io'.op = "read" => psram_mem' = psram_mem]_vars

C20_Witness ==
    /\ io = [op |-> "read", addr |-> -1, data |-> -128]
    /\ psram_mem[PSRAM_MASK] = 128 /\ psram_mem[0] = 255

\* C21: bit_reverse returns the bit-order-reversed form of every 8-bit
\* argument: bit k of the result is bit 7-k of the argument, the result is a
\* byte, bit_reverse(0x53) is 0xCA, and reversing the result gives the
\* argument back.
C21_BitReverse ==
    io.op = "bit_reverse" =>
        /\ io.res \in 0..255
        /\ \A k \in 0..7 : Bit(io.res, k) = Bit(io.arg, 7 - k)
        /\ (io.arg = 83 => io.res = 202)
        /\ bit_reverse(io.res) = io.arg

\* the test case 0x53 of main() has been computed
C21_Witness == io.op = "bit_reverse" /\ io.arg = 83 /\ io.res = 202

\* what a logged call is: its direction, its register, and whether it is a
\* write of the control register with GO set
Kind(e) ==
    [op |-> e.c.op, addr |-> e.c.addr,
     go |-> e.c.op = "write" /\ e.c.addr = ADDR_CTRL /\ CTRL_GO(e.c.data)]

KindW(a, g) == [op |-> "write", addr |-> a, go |-> g]

KindR(a) == [op |-> "read", addr |-> a, go |-> FALSE]

\* write divider, write slave-select, write transmit data, write control
\* with GO, read receive register
FiveInOrder ==
    << KindW(ADDR_DIVIDE, FALSE), KindW(ADDR_SS, FALSE),
       KindW(ADDR_TX0, FALSE), KindW(ADDR_CTRL, TRUE), KindR(ADDR_TX0) >>

\* C22 as stated: the transactions a transfer helper issues are, in every
\* helper, the five of FiveInOrder in that order.
C22_FiveInOrder ==
    /\ Len(log.calls) <= 5
    /\ \A k \in 1..Len(log.calls) : Kind(log.calls[k]) = FiveInOrder[k]

\* the transactions of the running helper, in the order of the source
HelperOrder(n) ==
    IF log.helper = "bitrev_transfer"
    THEN << KindW(ADDR_DIVIDE, FALSE), KindW(ADDR_SS, FALSE),
            KindW(ADDR_TX0, FALSE), KindW(ADDR_CTRL, FALSE),
            KindW(ADDR_CTRL, TRUE), KindR(ADDR_TX0) >>
    ELSE IF IsWB
    THEN [k \in 1..n |->
             IF k <= 4 THEN FiveInOrder[k]
             ELSE IF k < n \/ ~log.returned THEN KindR(ADDR_CTRL)
             ELSE KindR(ADDR_TX0)]
    ELSE FiveInOrder

\* C22 amended: every transaction of a transfer helper is issued from the
\* idle position with the request released and, but for the first, after
\* the one before it completed; the order is divider, slave-select,
\* transmit data, control with GO, receive register, with a control write
\* without GO before the GO write in bitrev_transfer and at most
\* XFER_TIMEOUT reads of the control register between the GO write and the
\* read of the receive register in spi_transfer of the Wishbone testbench;
\* the GO write follows the three configuration writes and the read of the
\* receive register follows the GO write; a helper that has returned has
\* issued its read of the receive register last.
C22_TransferOrder ==
    LET n == Len(log.calls)
        K == [k \in 1..n |-> Kind(log.calls[k])]
    IN  /\ \A k \in 1..n :
              /\ log.calls[k].at = "idle"
              /\ ReqLow(log.calls[k].before)
              /\ k > 1 => log.calls[k].last = "completed"
        /\ IF IsWB
           THEN /\ n <= 5 + XFER_TIMEOUT
                /\ \A k \in 1..n :
                      \/ K[k] = HelperOrder(n)[k]
                      \/ k > 4 /\ k = n /\ K[k] = KindR(ADDR_TX0)
           ELSE /\ n <= Len(HelperOrder(n))
                /\ \A k \in 1..n : K[k] = HelperOrder(n)[k]
        /\ \A k \in 1..n :
              /\ K[k].go =>
                    \A a \in {ADDR_DIVIDE, ADDR_SS, ADDR_TX0} :
                        \E j \in 1..(k - 1) : K[j] = KindW(a, FALSE)
              /\ K[k] = KindR(ADDR_TX0) =>
                    /\ k = n
                    /\ \E j \in 1..(k - 1) : K[j].go
        /\ log.returned => n > 0 /\ K[n] = KindR(ADDR_TX0)

\* spi_transfer of the Wishbone testbench has returned after polling the
\* control register XFER_TIMEOUT times
C22_Witness ==
    /\ log.returned
    /\ IsWB
    /\ Len(log.calls) = 5 + XFER_TIMEOUT
    /\ wx.result = "false"

\* the request lines agree: enable implies select on the APB handles, cycle
\* equals strobe on the Wishbone handle
LinesAgree(d) ==
    IF IsWB THEN d.wb_cyc_i = d.wb_stb_i
            ELSE d.penable = 1 => d.psel = 1

\* C23: at every evaluation of the model, over any sequence of reset, write
\* and read calls, enable asserted implies select asserted (APB testbenches)
\* and cycle equals strobe (Wishbone testbench): the inputs of every edge
\* advanced, and the handle between the edges, satisfy it.
C23_RequestLines ==
    /\ LinesAgree(dut)
    /\ \A k \in 1..Len(trace) : LinesAgree(trace[k].in)

\* the setup edge of a write issued after a read that timed out with select
\* and enable still asserted
C23_Witness ==
    /\ IsQSPI
    /\ pc = "w_access"
    /\ prev.op = "read"
    /\ prev.outcome = "timeout"
    /\ Len(trace) = 1
    /\ trace[1].in.psel = 1
    /\ trace[1].in.penable = 0

\* readiness read true, with the request asserted, after one of the first
\* MAX_CYCLES edges of the access phase (edge k of the access phase is edge
\* k + 1 of the transaction)
ReadyInTime ==
    \E k \in 1..MAX_CYCLES :
        /\ k + 1 <= Len(trace)
        /\ ReqActive(trace[k + 1].in)
        /\ trace[k + 1].out.ready

\* C24: in the QSPI testbench a write or read completes exactly when
\* readiness reads true after one of the first MAX_CYCLES access-phase
\* edges; otherwise it reports a timeout after exactly MAX_CYCLES + 1
\* access-phase edges, whatever readiness reads after the last of them (a
\* timed-out read returns at once, a timed-out write advances two more
\* edges).
C24_TimeoutPrecedence ==
    (IsQSPI /\ Returned) =>
        /\ outcome \in {"completed", "timeout"}
        /\ outcome = "completed" <=> ReadyInTime
        /\ outcome = "timeout" =>
              /\ Len(trace) =
                     MAX_CYCLES + 2 + (IF call.op = "write" THEN 2 ELSE 0)
              /\ \A k \in 2..(MAX_CYCLES + 2) : ReqActive(trace[k].in)
              /\ call.op = "read" => ret = TimedOutReturn("read")

\* a write has timed out although readiness read true after the last
\* access-phase edge
C24_Witness ==
    /\ IsQSPI
    /\ Returned
    /\ call.op = "write"
    /\ outcome = "timeout"
    /\ Len(trace) = MAX_CYCLES + 4
    /\ trace[MAX_CYCLES + 2].out.ready

\* C25: in the QSPI testbench a write that times out still advances the
\* hold edge, with the inputs of the access phase, and then the teardown
\* edge with select, enable and the write direction de-asserted, and it
\* returns with the three de-asserted.
C25_TimedOutWriteTeardown ==
    (IsQSPI /\ Returned /\ call.op = "write" /\ outcome = "timeout") =>
        /\ Len(trace) = MAX_CYCLES + 4
        /\ trace[MAX_CYCLES + 3].in = trace[MAX_CYCLES + 2].in
        /\ ReqActive(trace[MAX_CYCLES + 3].in)
        /\ ReqLow(trace[MAX_CYCLES + 4].in)
        /\ We(trace[MAX_CYCLES + 4].in) = 0
        /\ ReqLow(dut) /\ We(dut) = 0
        /\ ret = TimedOutReturn("write")

\* a write whose readiness never read true has returned
C25_Witness ==
    /\ IsQSPI
    /\ Returned
    /\ call.op = "write"
    /\ outcome = "timeout"
    /\ \A k \in 1..Len(trace) : ~trace[k].out.ready
    /\ ReqLow(dut)

\* C26: the wait loop advances at least one edge with the request fully
\* asserted before readiness decides anything: a write or read is completed
\* only by readiness sampled after such an edge, whatever readiness read
\* before the access phase, and a returned write or read has advanced at
\* least 3 edges (bit-reversal and Chisel testbenches), 4 (QSPI testbench)
\* or 2 (Wishbone testbench), the first edge of its wait loop being one with
\* the request fully asserted.
C26_MinimumLength ==
    /\ (call.op \in {"write", "read"} /\ outcome = "completed") => HasReady
    /\ Returned =>
          /\ Len(trace) >= ZeroWaitEdges
          /\ ReqActive(trace[IF IsWB THEN 1 ELSE 2].in)

\* a write of the Chisel testbench has completed in three edges although
\* readiness already read true after its setup edge
C26_Witness ==
    /\ variant = "chisel"
    /\ Completed
    /\ call.op = "write"
    /\ Len(trace) = 3
    /\ trace[1].out.ready
    /\ ~ReqActive(trace[1].in)

====
